---- MODULE Spec2Model ----
(***************************************************************************)
(* Model of the notebook distribute_flax_models.ipynb: a Jupyter kernel    *)
(* whose global names are the variables and whose cells are the actions.   *)
(* Cells may be executed in any order and any number of times.             *)
(*                                                                         *)
(* Abstraction of the numerics: the MLP is a one-parameter linear model    *)
(* y_pred = params * x on scalar samples, the optimizer keeps one          *)
(* accumulator, and all arithmetic is exact rational arithmetic.           *)
(***************************************************************************)
EXTENDS Integers, Sequences, FiniteSets, TLC

\* ---------------------------------------------------------------- bounds
MaxDevices == 2     \* jax.device_count() ranges over 1..MaxDevices
MaxBatch == 2       \* batchsize ranges over 1..MaxBatch
MaxRank == 2        \* leading device axes a state may accumulate
MaxInits == 2       \* executions of the init cell in one kernel session
MaxSteps == 2       \* chained training steps in SpecLoop

\* ------------------------------------------------------------ input sets
ValidModes == {"jit_single", "jit_multi", "pmap"}
Modes == ValidModes \cup {"ddp"}
\* a sample is <<x, y>>: one row of batch_data and its row of label_data.
\* A batch of b rows is either uniform (every row equal, as jnp.ones makes
\* it) or mixed (neighbouring rows differ).
Uniform(b) == [i \in 1..b |-> <<1, 1>>]
Mixed(b) == [i \in 1..b |-> IF i % 2 = 1 THEN <<1, 1>> ELSE <<2, 0>>]
Batches(b) == {Uniform(b), Mixed(b)}

VARIABLES
  devices,              \* jax.device_count()
  mode,                 \* global mode, "undef" before the init cell
  batchsize,            \* global batchsize
  batch_data,           \* global batch_data (array)
  label_data,           \* global label_data (array)
  initialized_state,    \* global initialized_state (TrainState pytree)
  train_step,           \* TRUE once the def train_step cell has run
  train_step_compiled,  \* "unbound", "jit" or "pmap"
  trace_cache,          \* traced step bodies, keyed by kind and argument shapes
  state, loss,          \* globals bound by the step cell
  new_state, new_loss,  \* locals of the %%timeit statement
  grads,                \* local grads of the last train_step call
  last, err,            \* the cell executed last and the exception it raised
  branch,               \* branch taken by the last dispatch
  init_count,           \* executions of the init cell so far
  batch0, label0        \* the arrays as the init cell created them

vars == <<devices, mode, batchsize, batch_data, label_data, initialized_state,
          train_step, train_step_compiled, trace_cache, state, loss,
          new_state, new_loss, grads, last, err, branch, init_count,
          batch0, label0>>

\* ------------------------------------------------- exact rational numbers
Abs(i) == IF i < 0 THEN -i ELSE i

RECURSIVE GCD(_, _)
GCD(a, b) == IF b = 0 THEN a ELSE GCD(b, a % b)

Norm(n, d) == LET g == GCD(Abs(n), d) IN [n |-> n \div g, d |-> d \div g]
RInt(i) == [n |-> i, d |-> 1]
RAdd(a, b) == Norm(a.n * b.d + b.n * a.d, a.d * b.d)
RSub(a, b) == Norm(a.n * b.d - b.n * a.d, a.d * b.d)
RMul(a, b) == Norm(a.n * b.n, a.d * b.d)
RDivInt(a, k) == Norm(a.n, a.d * k)

RECURSIVE RSum(_)
RSum(s) == IF s = <<>> THEN RInt(0) ELSE RAdd(Head(s), RSum(Tail(s)))

\* jnp.mean; the mean of an empty array is nan, written 0/0
Mean(s) == IF s = <<>> THEN [n |-> 0, d |-> 0] ELSE RDivInt(RSum(s), Len(s))

\* ------------------------------------------------------------------ arrays
\* An array is [rank, val, sharding]: rank 1 is a sequence of rows, rank 2 a
\* sequence of sequences of rows.  rank -1 marks an unbound name.
Unbound == [rank |-> -1, val |-> <<>>, sharding |-> "none"]

RECURSIVE Concat(_)
Concat(ss) == IF ss = <<>> THEN <<>> ELSE Head(ss) \o Concat(Tail(ss))

Flatten(a) == IF a.rank = 1 THEN a.val ELSE Concat(a.val)
ShapeOf(a) == IF a.rank = 1 THEN <<Len(a.val)>>
              ELSE <<Len(a.val), Len(a.val[1])>>
StateShape(s) == [i \in 1..s.rank |-> devices]

Arr(r, v, sh) == [rank |-> r, val |-> v, sharding |-> sh]
Xs(rows) == [i \in 1..Len(rows) |-> rows[i][1]]
Ys(rows) == [i \in 1..Len(rows) |-> rows[i][2]]

\* ------------------------------------------------------------- init cell
\* init_fn: model.init under the fixed PRNGKey(0), wrapped by TrainState.create
init_fn == [params |-> RInt(1), opt |-> RInt(0), step |-> 0]

\* ------------------------------------------------------------ train_step
\* loss_fn: jnp.mean((y_pred - y) ** 2) with y_pred = params * x
loss_fn(params, xs, ys) ==
  Mean([i \in 1..Len(xs) |->
          LET e == RSub(RMul(params, RInt(xs[i])), RInt(ys[i])) IN RMul(e, e)])

\* the gradient half of jax.value_and_grad(loss_fn)
grad_fn(params, xs, ys) ==
  Mean([i \in 1..Len(xs) |->
          LET e == RSub(RMul(params, RInt(xs[i])), RInt(ys[i]))
          IN RMul(RInt(2 * xs[i]), e)])

\* state.apply_gradients: the optimizer accumulates the gradient and the
\* parameters move against the accumulator; the step counter advances
apply_gradients(ts, g) ==
  LET acc == RAdd(ts.opt, g)
  IN [params |-> RSub(ts.params, acc), opt |-> acc, step |-> ts.step + 1]

\* jax.lax.pmean over the axis "device": every device receives the mean
pmeanLocal(gs) == gs
pmean(gs) == LET m == Mean(gs) IN [k \in 1..Len(gs) |-> m]

\* "if mode == 'pmap'" inside train_step, evaluated when the step is traced
UsesPmeanMulti(m) == m = "jit_multi"
UsesPmean(m) == m = "pmap"

Failed(e, cache) ==
  [err |-> e, state |-> Unbound, loss |-> Unbound, grads |-> Unbound,
   cache |-> cache]

Hit(cache, sig) == \E e \in cache : e.sig = sig
Cached(cache, sig) == CHOOSE e \in cache : e.sig = sig

\* jax.jit(train_step)(st, x, y): one global computation over the whole batch
JitCall(cache, st, x, y, m) ==
  LET sig == <<"jit", StateShape(st), ShapeOf(x), ShapeOf(y)>>
      hit == Hit(cache, sig)
  IN IF ~hit /\ (st.rank # 0 \/ ShapeOf(x) # ShapeOf(y))
       THEN Failed("TypeError", cache)      \* dot_general / broadcast shapes
     ELSE IF ~hit /\ UsesPmean(m)
       THEN Failed("NameError", cache)      \* pmean: unbound axis name device
     ELSE
       LET xs == Flatten(x)
           ys == Flatten(y)
           l == loss_fn(st.val.params, xs, ys)
           g == grad_fn(st.val.params, xs, ys)
       IN [err |-> "none",
           state |-> Arr(0, apply_gradients(st.val, g), st.sharding),
           loss |-> Arr(0, l, "single"),
           grads |-> Arr(0, g, "single"),
           cache |-> cache \cup {[sig |-> sig, kind |-> "jit", pmean |-> FALSE]}]

\* the slice of a mapped argument that device k receives (in_axes = 0)
Slice(a, k) == IF a.rank = 2 THEN a.val[k] ELSE <<a.val[k]>>

\* jax.pmap(train_step, axis_name="device", in_axes=(0, 0, 0))(st, x, y)
PmapCall(cache, st, x, y, m) ==
  LET sig == <<"pmap", StateShape(st), ShapeOf(x), ShapeOf(y)>>
      hit == Hit(cache, sig)
      n == Len(x.val)
  IN IF st.rank < 1
       THEN Failed("ValueError", cache)     \* mapped leaf of rank 0
     ELSE IF Len(st.val) # n \/ Len(y.val) # n \/ n > devices
       THEN Failed("ValueError", cache)     \* inconsistent mapped axis sizes
     ELSE IF ~hit /\ (st.rank # 1 \/ ShapeOf(x) # ShapeOf(y))
       THEN Failed("TypeError", cache)      \* dot_general / broadcast shapes
     ELSE
       LET flag == IF hit THEN Cached(cache, sig).pmean ELSE UsesPmean(m)
           lg == [k \in 1..n |->
                    grad_fn(st.val[k].params, Slice(x, k), Slice(y, k))]
           ll == [k \in 1..n |->
                    loss_fn(st.val[k].params, Slice(x, k), Slice(y, k))]
           g == IF flag THEN pmean(lg) ELSE lg
       IN [err |-> "none",
           state |-> Arr(1, [k \in 1..n |-> apply_gradients(st.val[k], g[k])],
                         "pmap"),
           loss |-> Arr(1, ll, "pmap"),
           grads |-> Arr(1, g, "pmap"),
           cache |-> cache \cup {[sig |-> sig, kind |-> "pmap", pmean |-> flag]}]

\* train_step_compiled(st, x, y)
Call(kind, cache, st, x, y, m) ==
  IF kind = "jit" THEN JitCall(cache, st, x, y, m)
  ELSE PmapCall(cache, st, x, y, m)

\* -------------------------------------------------------- dispatch cell
\* jax.device_put(a, NamedSharding(mesh, PartitionSpec('data'))): splits the
\* leading axis over the devices; an uneven split is rejected
DevicePut(a) ==
  [ok |-> Len(a.val) % devices = 0, arr |-> [a EXCEPT !.sharding = "data"]]

\* the rows device k holds of an array split along its leading axis
Shard(a, k) ==
  LET n == Len(a.val) \div devices
  IN SubSeq(a.val, (k - 1) * n + 1, k * n)

\* jax.device_put(state, NamedSharding(mesh, ())): a full copy on every device
DevicePutStacked(s) ==
  Arr(s.rank + 1, [k \in 1..devices |-> s.val], "replicated")
DevicePutReplicated(s) == [s EXCEPT !.sharding = "replicated"]

\* jax_utils.replicate: stacks one copy per device along a new leading axis
Replicate(s) == Arr(s.rank + 1, [k \in 1..devices |-> s.val], "pmap")

\* jnp.reshape(a, (d, n, ...)): row-major; rejected unless the sizes agree
ReshapeTruncating(a, d, n) ==
  LET flat == Flatten(a)
  IN [ok |-> TRUE,
      arr |-> Arr(2, [k \in 1..d |-> SubSeq(flat, (k - 1) * n + 1, k * n)],
                  "single")]
Reshape(a, d, n) ==
  LET flat == Flatten(a)
  IN [ok |-> Len(flat) = d * n,
      arr |-> Arr(2, [k \in 1..d |-> SubSeq(flat, (k - 1) * n + 1, k * n)],
                  "single")]

Outcome(e, br, st, x, y, tsc) ==
  [err |-> e, branch |-> br, st |-> st, x |-> x, y |-> y, tsc |-> tsc]

\* the 'jit_multi' branch, statement by statement
DispatchJitMulti(st, x, y, tsc, ts) ==
  LET px == DevicePut(x)
      py == DevicePut(y)
      st1 == DevicePutReplicated(st)
  IN IF ~px.ok THEN Outcome("ValueError", "jit_multi", st, x, y, tsc)
     ELSE IF ~py.ok THEN Outcome("ValueError", "jit_multi", st, px.arr, y, tsc)
     ELSE IF ~ts THEN Outcome("NameError", "jit_multi", st1, px.arr, py.arr, tsc)
     ELSE Outcome("none", "jit_multi", st1, px.arr, py.arr, "jit")

\* the 'pmap' branch, statement by statement
DispatchPmap(st, x, y, tsc, ts, b) ==
  LET st1 == Replicate(st)
      rx == Reshape(x, devices, b \div devices)
      ry == Reshape(y, devices, b \div devices)
  IN IF ~rx.ok THEN Outcome("TypeError", "pmap", st1, x, y, tsc)
     ELSE IF ~ry.ok THEN Outcome("TypeError", "pmap", st1, rx.arr, y, tsc)
     ELSE IF ~ts THEN Outcome("NameError", "pmap", st1, rx.arr, ry.arr, tsc)
     ELSE Outcome("none", "pmap", st1, rx.arr, ry.arr, "pmap")

\* the 'jit_single' branch
DispatchJitSingle(st, x, y, tsc, ts) ==
  IF ~ts THEN Outcome("NameError", "jit_single", st, x, y, tsc)
  ELSE Outcome("none", "jit_single", st, x, y, "jit")

\* the whole if / elif / elif / else of the dispatch cell
DispatchFallThrough(m, st, x, y, tsc, ts, b) ==
  IF m = "jit_multi" THEN DispatchJitMulti(st, x, y, tsc, ts)
  ELSE IF m = "pmap" THEN DispatchPmap(st, x, y, tsc, ts, b)
  ELSE DispatchJitSingle(st, x, y, tsc, ts)
DispatchNoLabel(m, st, x, y, tsc, ts, b) ==
  IF m = "jit_multi" THEN DispatchJitMulti(st, x, y, tsc, ts)
  ELSE IF m = "pmap"
    THEN [DispatchPmap(st, x, y, tsc, ts, b) EXCEPT !.y = y]
  ELSE IF m = "jit_single" THEN DispatchJitSingle(st, x, y, tsc, ts)
  ELSE Outcome("UnknownMode", "else", st, x, y, tsc)
DispatchWrongStep(m, st, x, y, tsc, ts, b) ==
  IF m = "jit_multi" THEN DispatchJitMulti(st, x, y, tsc, ts)
  ELSE IF m = "pmap"
    THEN LET o == DispatchPmap(st, x, y, tsc, ts, b)
         IN IF o.err = "none" THEN [o EXCEPT !.tsc = "jit"] ELSE o
  ELSE IF m = "jit_single" THEN DispatchJitSingle(st, x, y, tsc, ts)
  ELSE Outcome("UnknownMode", "else", st, x, y, tsc)
Dispatch(m, st, x, y, tsc, ts, b) ==
  IF m = "jit_multi" THEN DispatchJitMulti(st, x, y, tsc, ts)
  ELSE IF m = "pmap" THEN DispatchPmap(st, x, y, tsc, ts, b)
  ELSE IF m = "jit_single" THEN DispatchJitSingle(st, x, y, tsc, ts)
  ELSE Outcome("UnknownMode", "else", st, x, y, tsc)  \* raise ValueError

\* ----------------------------------------------------------------- cells
\* locals of a finished call do not outlive the next cell
NoLocals ==
  /\ new_state' = Unbound
  /\ new_loss' = Unbound
  /\ grads' = Unbound

Init ==
  /\ devices \in 1..MaxDevices
  /\ mode = "undef"
  /\ batchsize = 0
  /\ batch_data = Unbound
  /\ label_data = Unbound
  /\ initialized_state = Unbound
  /\ train_step = FALSE
  /\ train_step_compiled = "unbound"
  /\ trace_cache = {}
  /\ state = Unbound
  /\ loss = Unbound
  /\ new_state = Unbound
  /\ new_loss = Unbound
  /\ grads = Unbound
  /\ last = "none"
  /\ err = "none"
  /\ branch = "none"
  /\ init_count = 0
  /\ batch0 = Unbound
  /\ label0 = Unbound

\* the cell that sets mode, allocates the batch and initializes the state
InitCell ==
  /\ init_count < MaxInits
  /\ init_count' = init_count + 1
  /\ \E m \in Modes, b \in 1..MaxBatch :
    \E rows \in Batches(b) :
      /\ mode' = m
      /\ batchsize' = b
      /\ batch_data' = Arr(1, Xs(rows), "single")
      /\ label_data' = Arr(1, Ys(rows), "single")
      /\ initialized_state' = Arr(0, init_fn, "single")
      /\ batch0' = Arr(1, Xs(rows), "single")
      /\ label0' = Arr(1, Ys(rows), "single")
      /\ last' = "init"
      /\ err' = "none"
      /\ branch' = "none"
      /\ NoLocals
      /\ UNCHANGED <<devices, train_step, train_step_compiled, trace_cache,
                     state, loss>>

\* the cell "def train_step": a new function object, so nothing traced yet
DefCell ==
  /\ train_step' = TRUE
  /\ trace_cache' = {}
  /\ last' = "def"
  /\ err' = "none"
  /\ branch' = "none"
  /\ NoLocals
  /\ UNCHANGED <<devices, mode, batchsize, batch_data, label_data,
                 initialized_state, train_step_compiled, state, loss,
                 init_count, batch0, label0>>

\* the mode dispatch cell
DispatchCell ==
  /\ mode = "pmap" => initialized_state.rank < MaxRank
  /\ last' = "dispatch"
  /\ NoLocals
  /\ IF mode = "undef"
       THEN /\ err' = "NameError"
            /\ branch' = "none"
            /\ UNCHANGED <<batch_data, label_data, initialized_state,
                           train_step_compiled>>
       ELSE LET o == Dispatch(mode, initialized_state, batch_data, label_data,
                              train_step_compiled, train_step, batchsize)
            IN /\ err' = o.err
               /\ branch' = o.branch
               /\ initialized_state' = o.st
               /\ batch_data' = o.x
               /\ label_data' = o.y
               /\ train_step_compiled' = o.tsc
  /\ UNCHANGED <<devices, mode, batchsize, train_step, trace_cache, state,
                 loss, init_count, batch0, label0>>

CallReady == train_step_compiled # "unbound" /\ initialized_state.rank >= 0

\* the cell "state, loss = train_step_compiled(initialized_state, ...)"
StepCellDonating ==
  /\ last' = "step"
  /\ branch' = "none"
  /\ new_state' = Unbound
  /\ new_loss' = Unbound
  /\ IF ~CallReady
       THEN /\ err' = "NameError"
            /\ grads' = Unbound
            /\ UNCHANGED <<state, loss, trace_cache, initialized_state>>
       ELSE LET r == Call(train_step_compiled, trace_cache, initialized_state,
                          batch_data, label_data, mode)
            IN /\ err' = r.err
               /\ grads' = r.grads
               /\ trace_cache' = r.cache
               /\ IF r.err = "none"
                    THEN /\ state' = r.state
                         /\ loss' = r.loss
                         /\ initialized_state' = r.state
                    ELSE UNCHANGED <<state, loss, initialized_state>>
  /\ UNCHANGED <<devices, mode, batchsize, batch_data, label_data,
                 train_step, train_step_compiled,
                 init_count, batch0, label0>>
StepCell ==
  /\ last' = "step"
  /\ branch' = "none"
  /\ new_state' = Unbound
  /\ new_loss' = Unbound
  /\ IF ~CallReady
       THEN /\ err' = "NameError"
            /\ grads' = Unbound
            /\ UNCHANGED <<state, loss, trace_cache>>
       ELSE LET r == Call(train_step_compiled, trace_cache, initialized_state,
                          batch_data, label_data, mode)
            IN /\ err' = r.err
               /\ grads' = r.grads
               /\ trace_cache' = r.cache
               /\ IF r.err = "none"
                    THEN /\ state' = r.state
                         /\ loss' = r.loss
                    ELSE UNCHANGED <<state, loss>>
  /\ UNCHANGED <<devices, mode, batchsize, batch_data, label_data,
                 initialized_state, train_step, train_step_compiled,
                 init_count, batch0, label0>>

\* the %%timeit cell: the statement runs repeatedly on the same arguments
\* (two runs are modelled); new_state and loss are locals of the timed
\* statement and the globals state and loss are not rebound
TimeitCell ==
  /\ last' = "timeit"
  /\ branch' = "none"
  /\ IF ~CallReady
       THEN /\ err' = "NameError"
            /\ NoLocals
            /\ UNCHANGED trace_cache
       ELSE LET r1 == Call(train_step_compiled, trace_cache, initialized_state,
                           batch_data, label_data, mode)
                r2 == Call(train_step_compiled, r1.cache, initialized_state,
                           batch_data, label_data, mode)
                r == IF r1.err = "none" THEN r2 ELSE r1
            IN /\ err' = r.err
               /\ grads' = r.grads
               /\ trace_cache' = r.cache
               /\ new_state' = r.state
               /\ new_loss' = r.loss
  /\ UNCHANGED <<devices, mode, batchsize, batch_data, label_data,
                 initialized_state, train_step, train_step_compiled, state,
                 loss, init_count, batch0, label0>>

\* the visualize_array_sharding cell: reads state and batch_data only
VisualizeCell ==
  /\ last' = "visualize"
  /\ branch' = "none"
  /\ NoLocals
  /\ err' = IF mode = "undef" \/ state.rank < 0 THEN "NameError"
            ELSE IF mode = "pmap"
                    /\ ((state.rank >= 1 /\ Len(state.val) < 2)
                        \/ Len(batch_data.val) < 2)
              THEN "IndexError"
            ELSE "none"
  /\ UNCHANGED <<devices, mode, batchsize, batch_data, label_data,
                 initialized_state, train_step, train_step_compiled,
                 trace_cache, state, loss, init_count, batch0, label0>>

Next ==
  \/ InitCell
  \/ DefCell
  \/ DispatchCell
  \/ StepCell
  \/ TimeitCell
  \/ VisualizeCell

Spec == Init /\ [][Next]_vars

\* a training loop: the step's output state is fed to the next step
LoopStep ==
  /\ train_step_compiled # "unbound"
  /\ state.rank >= 0
  /\ batch_data.rank >= 0
  /\ (IF state.rank = 0 THEN state.val.step ELSE state.val[1].step) < MaxSteps
  /\ LET r == Call(train_step_compiled, trace_cache, state, batch_data,
                   label_data, mode)
     IN /\ r.err = "none"
        /\ state' = r.state
        /\ loss' = r.loss
        /\ grads' = r.grads
        /\ trace_cache' = r.cache
  /\ last' = "loop"
  /\ err' = "none"
  /\ branch' = "none"
  /\ new_state' = Unbound
  /\ new_loss' = Unbound
  /\ UNCHANGED <<devices, mode, batchsize, batch_data, label_data,
                 initialized_state, train_step, train_step_compiled,
                 init_count, batch0, label0>>

\* the notebook run from a fresh kernel with the loop appended
NextLoop ==
  \/ (mode = "undef" /\ InitCell)
  \/ DefCell
  \/ DispatchCell
  \/ StepCell
  \/ LoopStep

SpecLoop == Init /\ [][NextLoop]_vars

\* ================================================================ claims
InitParams == init_fn.params
\* loss and gradient of the fresh state on the whole batch, on one device
FullLoss == loss_fn(InitParams, batch0.val, label0.val)
FullGrad == grad_fn(InitParams, batch0.val, label0.val)
Divisible == batchsize % devices = 0
Raised == last = "dispatch" /\ err = "UnknownMode"
DispatchWork ==
  <<initialized_state, batch_data, label_data, train_step_compiled, trace_cache>>

\* C1 (as stated): when the dispatch raises the configuration error for an
\* unrecognized mode, no parameter has been initialized, no array allocated
\* and no compiled step is bound.
C1_NoWorkBeforeError ==
  Raised => /\ initialized_state.rank < 0
            /\ batch_data.rank < 0
            /\ label_data.rank < 0
            /\ train_step_compiled = "unbound"

\* C1 (amended): a dispatch under an unrecognized mode always raises the
\* configuration error, only such a dispatch raises it, and the raising
\* dispatch itself has replicated, sharded, reshaped, compiled and bound
\* nothing: state, batch, labels and the step binding are as they were.
C1_ErrorBeforeDispatchWork ==
  [][(last' = "dispatch" /\ mode # "undef")
       => /\ (mode \notin ValidModes) <=> (err' = "UnknownMode")
          /\ (mode \notin ValidModes) => UNCHANGED DispatchWork]_vars

C1_Witness ==
  /\ Raised
  /\ initialized_state.rank = 0
  /\ batch_data.rank = 1
  /\ train_step_compiled = "pmap"

\* C2 (as stated): under each valid mode the dispatch takes exactly the
\* branch of that mode, raises nothing and leaves a compiled step bound
\* (stated here for the notebook run in order, train_step already defined).
C2_ValidModeAlwaysBinds ==
  (last = "dispatch" /\ mode \in ValidModes /\ train_step)
    => /\ branch = mode
       /\ err = "none"
       /\ train_step_compiled \in {"jit", "pmap"}

\* C2 (amended): under each valid mode the dispatch takes exactly the branch
\* of that mode; it raises nothing exactly when train_step is defined and,
\* for 'jit_multi' and 'pmap', the device count divides the batch size, and
\* then train_step_compiled is the step that branch compiles.
C2_ValidModeBinds ==
  (last = "dispatch" /\ mode \in ValidModes)
    => /\ branch = mode
       /\ (err = "none") <=> (train_step /\ (mode = "jit_single" \/ Divisible))
       /\ err = "none"
            => train_step_compiled = (IF mode = "pmap" THEN "pmap" ELSE "jit")

C2_Witness ==
  /\ last = "dispatch"
  /\ mode = "pmap"
  /\ branch = "pmap"
  /\ err = "none"
  /\ train_step_compiled = "pmap"
  /\ devices = 2

\* C3: the loss a training step returns equals the loss of the fresh state
\* on the full batch, whichever mode compiled the step (under 'pmap' every
\* entry of the returned loss).
C3_LossSameInEveryMode ==
  (last = "step" /\ err = "none")
    => IF loss.rank = 0 THEN loss.val = FullLoss
       ELSE \A k \in 1..Len(loss.val) : loss.val[k] = FullLoss

\* the step cell or the timed statement has just returned normally
Stepped == last \in {"step", "timeit"} /\ err = "none"

\* C4: under 'pmap' the gradient applied on every device equals the gradient
\* of the fresh state on the full batch computed on a single device.
C4_PmapGradIsFullBatchGrad ==
  (Stepped /\ train_step_compiled = "pmap")
    => /\ mode = "pmap"
       /\ Divisible
       /\ Len(grads.val) = devices
       /\ \A k \in 1..devices : grads.val[k] = FullGrad

C4_Witness ==
  /\ Stepped
  /\ train_step_compiled = "pmap"
  /\ devices = 2
  /\ batch0.val = <<1, 2>>
  /\ grads.val[1] = FullGrad
  /\ loss.val[1] # loss.val[2]

\* the device that holds row i (counted over the flattened array): the
\* leading axis of a reshaped array is the pmap device axis, a 'data'
\* sharded array is cut into equal consecutive blocks
DeviceOf(a, i) ==
  IF a.rank = 2 THEN ((i - 1) \div Len(a.val[1])) + 1
  ELSE IF a.sharding = "data" THEN ((i - 1) \div (Len(a.val) \div devices)) + 1
  ELSE 1

SamePartitioning ==
  /\ batch_data.rank = label_data.rank
  /\ ShapeOf(batch_data) = ShapeOf(label_data)
  /\ batch_data.sharding = label_data.sharding
  /\ \A i \in 1..batchsize : DeviceOf(batch_data, i) = DeviceOf(label_data, i)

\* C5: after a dispatch that returned normally, state and batch are prepared
\* as the mode says: untouched under 'jit_single'; state on every device and
\* batch and labels split along the sample axis under 'jit_multi'; a leading
\* device axis on the state and (device_count, batchsize // device_count)
\* batch and labels under 'pmap'; batch and labels partitioned alike.
C5_PreparedAsModeSays ==
  (last = "dispatch" /\ err = "none")
    => /\ SamePartitioning
       /\ mode = "jit_single"
            => /\ initialized_state = Arr(0, init_fn, "single")
               /\ batch_data = batch0
               /\ label_data = label0
       /\ mode = "jit_multi"
            => /\ initialized_state = Arr(0, init_fn, "replicated")
               /\ batch_data = [batch0 EXCEPT !.sharding = "data"]
               /\ label_data = [label0 EXCEPT !.sharding = "data"]
       /\ mode = "pmap"
            => /\ initialized_state.rank >= 1
               /\ Len(initialized_state.val) = devices
               /\ \A k \in 1..devices :
                    initialized_state.val[k] = initialized_state.val[1]
               /\ batch_data.rank = 2
               /\ label_data.rank = 2
               /\ ShapeOf(batch_data) = <<devices, batchsize \div devices>>
               /\ Flatten(batch_data) = batch0.val
               /\ Flatten(label_data) = label0.val

C5_Witness ==
  /\ last = "dispatch"
  /\ err = "none"
  /\ mode = "pmap"
  /\ devices = 2
  /\ batch_data.val = <<<<1>>, <<2>>>>
  /\ label_data.val = <<<<1>>, <<0>>>>

\* the rows each device holds of a partitioned array
Partitioned(a) == a.rank = 2 \/ a.sharding = "data"
DeviceShards(a) ==
  IF a.rank = 2 THEN a.val ELSE [k \in 1..devices |-> Shard(a, k)]
ExactCover(a, a0) ==
  /\ Concat(DeviceShards(a)) = a0.val
  /\ \A k \in 1..devices : Len(DeviceShards(a)[k]) * devices = Len(a0.val)

\* a partitioned array holds every row of the original on exactly one
\* device, in shards of equal size
NoRowLostOrDuplicated ==
  /\ Partitioned(batch_data) => ExactCover(batch_data, batch0)
  /\ Partitioned(label_data) => ExactCover(label_data, label0)

\* C6: batch and labels are never partitioned with a row lost or duplicated;
\* when the device count does not divide the batch size the dispatch under
\* 'jit_multi' or 'pmap' raises, leaves batch and labels unpartitioned, binds
\* no step and runs no step.
C6_NoRowLostOrDuplicated ==
  [][/\ NoRowLostOrDuplicated'
     /\ (last' = "dispatch" /\ mode \in {"jit_multi", "pmap"} /\ ~Divisible)
          => /\ err' \in {"ValueError", "TypeError"}
             /\ ~Partitioned(batch_data')
             /\ ~Partitioned(label_data')
             /\ UNCHANGED <<batch_data, label_data, train_step_compiled,
                            state, loss>>]_vars

C6_Witness ==
  /\ last = "dispatch"
  /\ mode = "pmap"
  /\ devices = 2
  /\ batchsize = 1
  /\ err = "TypeError"
  /\ train_step

ReplicasAgree(s) ==
  s.rank >= 1 => \A j, k \in 1..Len(s.val) : s.val[j] = s.val[k]

\* C8: after the dispatch and after every training step, also when each
\* step's output state is the next step's input, all devices hold the same
\* parameters and optimizer state; under 'jit_multi' the stepped state is
\* the one array copied to every device.
C8_ReplicasIdentical ==
  /\ ReplicasAgree(initialized_state)
  /\ ReplicasAgree(state)
  /\ (last \in {"step", "loop"} /\ err = "none"
        /\ initialized_state.sharding = "replicated")
       => state.sharding = "replicated" /\ state.rank = 0

C8_Witness ==
  /\ last = "loop"
  /\ devices = 2
  /\ state.rank = 1
  /\ state.val[1].step = 2
  /\ state.val[1] = state.val[2]
  /\ batch_data.val = <<<<1>>, <<2>>>>

\* C9: a call of the compiled step leaves its three arguments as they were,
\* and a call repeated on the same arguments, by the step cell or by the
\* timed statement, returns the state and loss the first call returned.
C9_StepIsPure ==
  [][/\ last' \in {"step", "timeit"}
          => UNCHANGED <<initialized_state, batch_data, label_data>>
     /\ (last = "step" /\ err = "none" /\ last' = "timeit")
          => err' = "none" /\ new_state' = state /\ new_loss' = loss
     /\ (last = "step" /\ err = "none" /\ last' = "step")
          => err' = "none" /\ state' = state /\ loss' = loss]_vars

C9_Witness ==
  /\ last = "timeit"
  /\ err = "none"
  /\ new_state.rank = state.rank
  /\ new_state = state
  /\ new_loss = loss
  /\ initialized_state.val = init_fn

\* rank, shape and placement of the three arrays the dispatch prepares
Layout ==
  <<initialized_state.rank, initialized_state.sharding,
    batch_data.rank, ShapeOf(batch_data), batch_data.sharding,
    label_data.rank, ShapeOf(label_data), label_data.sharding>>
BatchLayout ==
  <<batch_data.rank, ShapeOf(batch_data), batch_data.sharding,
    label_data.rank, ShapeOf(label_data), label_data.sharding>>
Redispatch == last = "dispatch" /\ err = "none" /\ last' = "dispatch"

\* C10 (as stated): running the dispatch again after a run that returned
\* normally leaves state and batch with the shape and placement they had.
C10_DispatchIdempotent ==
  [][Redispatch => (err' = "none" /\ Layout' = Layout)]_vars

\* C10 (amended): a repeated dispatch returns normally and keeps the
\* shape and placement of batch and labels; it keeps those of the state
\* under 'jit_single' and 'jit_multi', but under 'pmap' it stacks one more
\* device axis on the state, and no compiled step accepts a state with two
\* or more device axes.
C10_IdempotentExceptPmapState ==
  [][/\ Redispatch
          => /\ err' = "none"
             /\ BatchLayout' = BatchLayout
             /\ IF mode = "pmap"
                  THEN initialized_state'.rank = initialized_state.rank + 1
                  ELSE Layout' = Layout
     /\ (last' \in {"step", "timeit"} /\ initialized_state.rank >= 2)
          => err' # "none"]_vars

C10_Witness ==
  /\ last = "step"
  /\ mode = "pmap"
  /\ train_step_compiled = "pmap"
  /\ initialized_state.rank = 2
  /\ batch_data.rank = 2
  /\ err = "TypeError"

====
